---- MODULE Spec2Model ----
(***************************************************************************)
(* A model of the replica-set controller of src/src/db-replica_ctrl.py:    *)
(* manage_replica (classification, fresh initiation, redeployment and the  *)
(* watch loop), update_config, init_replica, reconfigure_replica_set,      *)
(* create_mongo_config, gather_configured_members_ips and get_primary_ip,  *)
(* together with the database and the orchestrator as its environment.     *)
(*                                                                         *)
(* The database is one replica set: a configuration document, held by the  *)
(* members it lists, and at most one writable primary.  It installs a      *)
(* submitted document exactly as submitted when it accepts a command, and  *)
(* it may refuse or time out on any command.                               *)
(*                                                                         *)
(* Spec is the controller running against the database.  GatherSpec,       *)
(* AdminSpec, TargetSpec and PrimarySpec apply one function of the         *)
(* controller to every input of a bounded set, the database at rest.       *)
(***************************************************************************)
EXTENDS Integers, Sequences, FiniteSets, TLC

\* ---------------------------------------------------------------- bounds
\* Task ips are 1..MaxIp.
MaxIp == 3
\* The database accepts no config whose version exceeds MaxVersion.
MaxVersion == 2
\* The database accepts no config with a member _id above MaxId.
MaxId == 3

IPs == 1..MaxIp
\* Python's None, for a primary ip.
None == 0
\* MONGO_PORT of the environment (the spec's scenarios use 27017).
mongo_port == 27017

\* ---------------------------------------------------------------- helpers
Range(s) == {s[i] : i \in DOMAIN s}
Max(S) == CHOOSE x \in S : \A y \in S : y <= x
\* The orders in which a Python list or set of the elements of S can be
\* enumerated.
Perms(S) == {s \in [1..Cardinality(S) -> S] : \A i, j \in DOMAIN s : i # j => s[i] # s[j]}
\* Every sequence of distinct ips: what the orchestrator can enumerate.
TaskLists == UNION {Perms(S) : S \in SUBSET IPs}

\* "{}:{}".format(ip, mongo_port) and host.split(":")[0]
FormatHost(ip, port) == <<ip, port>>
HostIp(host) == host[1]

\* A replica-set config document.  version = 0 with no members stands for
\* "this node holds no config" (replSetGetConfig answers NotYetInitialized).
NoConfig == [version |-> 0, members |-> <<>>]
MemberIps(config) == {HostIp(config.members[i].host) : i \in DOMAIN config.members}
MemberIds(config) == {config.members[i]._id : i \in DOMAIN config.members}
DistinctIds(config) ==
    \A i, j \in DOMAIN config.members :
        i # j => config.members[i]._id # config.members[j]._id
DistinctHosts(config) ==
    \A i, j \in DOMAIN config.members :
        i # j => config.members[i].host # config.members[j].host

\* ------------------------------------------------------ create_mongo_config
create_mongo_config(tasks_ips) ==
    [version |-> 1,
     members |-> [i \in 1..Len(tasks_ips) |->
                     [_id |-> i - 1, host |-> FormatHost(tasks_ips[i], mongo_port)]]]

\* ------------------------------------------------------------ get_primary_ip
\* A node's answer to the unauthenticated hello:
\*   "timeout"   ServerSelectionTimeoutError
\*   "opfail"    OperationFailure
\*   "uninit"    answered, setName None, not writable
\*   "secondary" answered, setName set, not writable
\*   "primary"   answered, setName set, isWritablePrimary
HelloAnswers == {"timeout", "opfail", "uninit", "secondary", "primary"}
IsWritable(answer) == answer = "primary"
HasSetName(answer) == answer \in {"secondary", "primary"}

\* A scan that gives up at the first node whose hello raises: not what the
\* code does; the scan for the primary must tell it apart from
\* scan_for_primary.
RECURSIVE scan_for_primary_abort_on_error(_, _, _)
scan_for_primary_abort_on_error(tasks_ips, hello, i) ==
    IF i > Len(tasks_ips) THEN [primary_ip |-> None, probed |-> i - 1]
    ELSE IF IsWritable(hello[tasks_ips[i]]) THEN [primary_ip |-> tasks_ips[i], probed |-> i]
    ELSE IF hello[tasks_ips[i]] \in {"timeout", "opfail"}
    THEN [primary_ip |-> None, probed |-> i]
    ELSE scan_for_primary_abort_on_error(tasks_ips, hello, i + 1)

\* "for t in tasks_ips": hello on each node in turn, break at the first that
\* is writable; a hello that raises is logged and the scan goes on.  probed is
\* the number of nodes hello was sent to.
RECURSIVE scan_for_primary(_, _, _)
scan_for_primary(tasks_ips, hello, i) ==
    IF i > Len(tasks_ips) THEN [primary_ip |-> None, probed |-> i - 1]
    ELSE IF IsWritable(hello[tasks_ips[i]]) THEN [primary_ip |-> tasks_ips[i], probed |-> i]
    ELSE scan_for_primary(tasks_ips, hello, i + 1)

get_primary_ip(tasks_ips, hello) == scan_for_primary(tasks_ips, hello, 1).primary_ip

\* ------------------------------------------------------------- update_config
\* to_remove and to_add of update_config.
to_remove(current_ips, new_ips) == current_ips \ new_ips
to_add(current_ips, new_ips) == new_ips \ current_ips

\* "assert to_remove or to_add" is reached, and fails, when the two sets are
\* empty and current_ips is empty too.
assertion_fails(current_ips, new_ips) ==
    /\ ~(to_remove(current_ips, new_ips) # {} \/ to_add(current_ips, new_ips) # {})
    /\ ~(current_ips # {})

primary_lost(primary_ip, current_ips, new_ips) ==
    primary_ip \in to_remove(current_ips, new_ips) \/ primary_ip = None

\* A force flag decided by the size test alone: not what the code does on the
\* primary-lost branch; the primary-loss scenario must tell it apart from
\* force_flag.
force_flag_size_only(primary_ip, current_ips, new_ips) ==
    Cardinality(to_remove(current_ips, new_ips)) > 1
        \/ Cardinality(to_add(current_ips, new_ips)) > 1

\* The force flag as it stands when replSetReconfig is sent: the value set on
\* either branch of the first if is overwritten by the size test, and the
\* primary-lost branch then sets True.
force_flag(primary_ip, current_ips, new_ips) ==
    LET significant == \/ Cardinality(to_remove(current_ips, new_ips)) > 1
                       \/ Cardinality(to_add(current_ips, new_ips)) > 1
    IN  IF primary_lost(primary_ip, current_ips, new_ips) THEN TRUE ELSE significant

\* The hello round over new_ips: False as soon as one node answers with a
\* set name; a node that raises leaves the flag alone.
all_nodes_uninitialized(new_ips, hello) ==
    \A t \in new_ips : ~HasSetName(hello[t])

\* "attempts = 6" of the wait for a newly elected primary.
primary_wait_attempts == 6

\* while attempts and not primary_ip: primary_ip = get_primary_ip(...)
RECURSIVE wait_for_primary(_, _, _, _, _)
wait_for_primary(attempts, primary_ip, polls, new_order, hello) ==
    IF attempts # 0 /\ primary_ip = None
    THEN wait_for_primary(attempts - 1, get_primary_ip(new_order, hello),
                          polls + 1, new_order, hello)
    ELSE [primary_ip |-> primary_ip, polls |-> polls]

\* list(...)[0] of an empty list raises IndexError.
IndexError == 0 - 1

\* A choice that stays with the held primary whenever one is held, removed
\* or not: not what the code does; the targets of the commands must tell it
\* apart from reconfig_target.
reconfig_target_held_first(primary_ip, current_ips, new_ips, hello, new_order, old_order) ==
    [primary_ip |-> IF primary_ip # None THEN primary_ip
                    ELSE IF Len(old_order) > 0 THEN old_order[1]
                    ELSE IF Len(new_order) > 0 THEN new_order[1]
                    ELSE IndexError,
     polls |-> 0, skipped |-> FALSE]

\* The node update_config connects to.  new_order is list(new_ips) and
\* old_order is list(new_ips - to_add), in the order Python enumerates them.
\* skipped: "attempts = 0  # Skip the waiting loop".
reconfig_target(primary_ip, current_ips, new_ips, hello, new_order, old_order) ==
    IF ~primary_lost(primary_ip, current_ips, new_ips)
    THEN [primary_ip |-> primary_ip, polls |-> 0, skipped |-> FALSE]
    ELSE LET skip == all_nodes_uninitialized(new_ips, hello) /\ Cardinality(new_ips) > 0
             waited == IF skip
                       THEN [primary_ip |-> None, polls |-> 0]
                       ELSE wait_for_primary(primary_wait_attempts, None, 0, new_order, hello)
             chosen == IF waited.primary_ip # None THEN waited.primary_ip
                       ELSE IF Len(old_order) > 0 THEN old_order[1]
                       ELSE IF Len(new_order) > 0 THEN new_order[1]
                       ELSE IndexError
         IN  [primary_ip |-> chosen, polls |-> waited.polls, skipped |-> skip]

\* A filter that renumbers the members it keeps by position: not what the
\* code does; id stability must tell it apart from kept_members.
kept_members_renumbered(members, rem) ==
    LET kept == SelectSeq(members, LAMBDA m : HostIp(m.host) \notin rem)
    IN  [i \in 1..Len(kept) |-> [_id |-> i - 1, host |-> kept[i].host]]

\* new_members = [m for m in config['members'] if ip of m not in to_remove]
IsKept(m, rem) == HostIp(m.host) \notin rem
kept_members(members, rem) ==
    IF rem # {} THEN SelectSeq(members, LAMBDA m : IsKept(m, rem)) ELSE members

\* An offset that starts at the highest id left instead of after it: not
\* what the code does; id uniqueness must tell it apart from id_offset.
id_offset_at_max(members) ==
    IF Len(members) > 0 THEN Max({members[i]._id : i \in DOMAIN members}) ELSE 0

\* offset = max(_id of the members left) + 1, or 0 when none is left
id_offset(members) ==
    IF Len(members) > 0 THEN Max({members[i]._id : i \in DOMAIN members}) + 1 ELSE 0

\* for i, ip in enumerate(to_add): append {_id: offset + i, host: ip:port}
added_members(offset, add_order) ==
    [i \in 1..Len(add_order) |->
        [_id |-> offset + (i - 1), host |-> FormatHost(add_order[i], mongo_port)]]

\* A version that is not incremented: not what the code does; the scale-out
\* scenario must tell it apart from next_version.
next_version_same(version) == version

\* config['version'] += 1
next_version(version) == version + 1

\* The config update_config builds from the one it read.
updated_config(config, rem, add_order) ==
    LET kept == kept_members(config.members, rem)
    IN  [version |-> next_version(config.version),
         members |-> IF Len(add_order) > 0
                     THEN kept \o added_members(id_offset(kept), add_order)
                     ELSE kept]

\* "attempts = 3" of the replSetReconfig retry loop.
reconfig_attempts == 3

\* The database's answers to replSetReconfig: "ok", "opfail" (OperationFailure)
\* or "timeout" (any other driver error).  Only OperationFailure is retried; any
\* other error leaves the loop through the outer handlers.
RECURSIVE reconfig_loop(_, _, _)
reconfig_loop(attempts, answers, sends) ==
    IF attempts = 0 THEN [sends |-> sends, accepted |-> FALSE]
    ELSE IF answers[sends + 1] = "ok" THEN [sends |-> sends + 1, accepted |-> TRUE]
    ELSE IF answers[sends + 1] = "opfail" THEN reconfig_loop(attempts - 1, answers, sends + 1)
    ELSE [sends |-> sends + 1, accepted |-> FALSE]

\* update_config from its entry to the point where the built config is about
\* to be sent.  env holds what the environment answers on the way: hello
\* (node -> hello answer), new_order, old_order and add_order (Python's
\* enumeration orders of new_ips, new_ips - to_add and to_add), read ("ok" or
\* a failure of replSetGetConfig) and stored (node -> the config it holds).
\* stage tells how far the call got: "raised" (an exception no handler of
\* update_config catches), "returned" (the config read failed and was
\* logged) or "sending" (the retry loop of replSetReconfig is entered).
NoCall ==
    [stage |-> "none", primary_ip |-> None, current_ips |-> {}, new_ips |-> {},
     target |-> None, polls |-> 0, force |-> FALSE, read |-> NoConfig,
     config |-> NoConfig]

update_config(primary_ip, current_ips, new_ips, env) ==
    LET call == [NoCall EXCEPT !.primary_ip = primary_ip,
                               !.current_ips = current_ips, !.new_ips = new_ips]
        chosen == reconfig_target(primary_ip, current_ips, new_ips, env.hello,
                                  env.new_order, env.old_order)
        force == force_flag(primary_ip, current_ips, new_ips)
    IN  IF assertion_fails(current_ips, new_ips) THEN [call EXCEPT !.stage = "raised"]
        ELSE IF chosen.primary_ip = IndexError
        THEN [call EXCEPT !.stage = "raised", !.polls = chosen.polls, !.force = force]
        ELSE IF env.read # "ok"
        THEN [call EXCEPT !.stage = "returned", !.target = chosen.primary_ip,
                          !.polls = chosen.polls, !.force = force]
        ELSE [call EXCEPT !.stage = "sending", !.target = chosen.primary_ip,
                          !.polls = chosen.polls, !.force = force,
                          !.read = env.stored[chosen.primary_ip],
                          !.config = updated_config(env.stored[chosen.primary_ip],
                                         to_remove(current_ips, new_ips), env.add_order)]

\* ------------------------------------------- gather_configured_members_ips
\* A node's answer to the authenticated replSetGetConfig:
\*   "config"   the config it holds
\*   "timeout"  ServerSelectionTimeoutError
\*   "nyi"      OperationFailure, code 94 / NotYetInitialized
\*   "authfail" any other OperationFailure
ProbeAnswers == {"config", "timeout", "nyi", "authfail"}

\* "max_retries = 3"
max_retries == 3

\* One pass of "for t in mongo_tasks_ips": stops at the first node that
\* answers with a config, counts the NotYetInitialized answers before it.
\* probed is the number of nodes the pass sent replSetGetConfig to.
RECURSIVE probe_pass(_, _, _, _)
probe_pass(tasks_ips, answer, i, not_yet_initialized_count) ==
    IF i > Len(tasks_ips)
    THEN [config_found |-> FALSE, node |-> None, probed |-> i - 1,
          not_yet_initialized_count |-> not_yet_initialized_count]
    ELSE IF answer[tasks_ips[i]] = "config"
    THEN [config_found |-> TRUE, node |-> tasks_ips[i], probed |-> i,
          not_yet_initialized_count |-> not_yet_initialized_count]
    ELSE probe_pass(tasks_ips, answer, i + 1,
                    IF answer[tasks_ips[i]] = "nyi"
                    THEN not_yet_initialized_count + 1 ELSE not_yet_initialized_count)

\* A retry loop that starts another pass whenever no config was found,
\* whatever the nodes answered: not what the code does; the never-initialised
\* window must tell it apart from gather_attempt.
RECURSIVE gather_attempt_retry_any(_, _, _, _)
gather_attempt_retry_any(attempt, tasks_ips, answers, stored) ==
    LET pass == probe_pass(tasks_ips, answers[attempt + 1], 1, 0)
    IN  IF pass.config_found
        THEN [current_ips |-> MemberIps(stored[pass.node]), passes |-> attempt + 1,
              node |-> pass.node, probed |-> pass.probed]
        ELSE IF attempt < max_retries - 1
        THEN gather_attempt_retry_any(attempt + 1, tasks_ips, answers, stored)
        ELSE [current_ips |-> {}, passes |-> attempt + 1, node |-> None,
              probed |-> pass.probed]

\* "for attempt in range(max_retries)": answers[attempt + 1] are the nodes'
\* answers during that pass, stored[node] the config a node holds.
\* current_ips is reset at the head of each pass and filled from the one
\* config read; passes, node and probed tell how the last pass went.
RECURSIVE gather_attempt(_, _, _, _)
gather_attempt(attempt, tasks_ips, answers, stored) ==
    LET pass == probe_pass(tasks_ips, answers[attempt + 1], 1, 0)
    IN  IF pass.config_found
        THEN [current_ips |-> MemberIps(stored[pass.node]), passes |-> attempt + 1,
              node |-> pass.node, probed |-> pass.probed]
        ELSE IF pass.not_yet_initialized_count = Len(tasks_ips) /\ attempt < max_retries - 1
        THEN gather_attempt(attempt + 1, tasks_ips, answers, stored)
        ELSE [current_ips |-> {}, passes |-> attempt + 1, node |-> None,
              probed |-> pass.probed]

\* A gathering that adds the members of every config the nodes of the pass
\* hold: not what the code does; the classification of the known members must
\* tell it apart from gather_configured_members_ips.
gather_configured_members_ips_union(tasks_ips, answers, stored) ==
    LET first == gather_attempt(0, tasks_ips, answers, stored)
    IN  [first EXCEPT !.current_ips =
            UNION {MemberIps(stored[t]) :
                      t \in {u \in Range(tasks_ips) : answers[first.passes][u] = "config"}}]

gather_configured_members_ips(tasks_ips, answers, stored) ==
    gather_attempt(0, tasks_ips, answers, stored)

\* -------------------------------------------------- reconfigure_replica_set
\* A hand-off that does not force: not what the code does; the hand-off
\* scenario must tell it apart from reconfigure_replica_set.
reconfigure_replica_set_unforced(primary_ip, config, answer) ==
    [target |-> primary_ip, config |-> config, force |-> FALSE, sends |-> 1,
     accepted |-> answer = "ok", raised |-> answer = "timeout"]

\* replSetReconfig with force=True; answer is "ok", "opfail" (absorbed) or
\* "timeout" (no handler: the error leaves the function).
reconfigure_replica_set(primary_ip, config, answer) ==
    [target |-> primary_ip, config |-> config, force |-> TRUE, sends |-> 1,
     accepted |-> answer = "ok", raised |-> answer = "timeout"]

\* ------------------------------------------------- initialize_mongodb_admin
\* "retry_attempts = 8"
admin_retry_attempts == 8

\* for attempt in range(retry_attempts): hello on the bootstrap target; when
\* the answer names a primary and a container of the service is found,
\* create_mongodb_root_user runs once in that container and the function
\* returns.  topology[k] is the primary ip the k-th hello names (None: no
\* primary named, or the call raised); containers[k] is the node that runs in
\* the first container the k-th dc.containers.list() gives under the service
\* name (None: no such container).  The container is looked up by the service
\* name alone; primaryIp is handed to create_mongodb_root_user for its log.
NoAdmin == [polls |-> 0, create_root |-> FALSE, creates |-> 0, primaryIp |-> None,
            container |-> None]

\* A wait that creates the root user as soon as a container is found, whether
\* or not hello named a primary: not what the code does; the ordering of the
\* root-user creation must tell it apart from admin_attempt.
RECURSIVE admin_attempt_without_primary(_, _, _)
admin_attempt_without_primary(attempt, topology, containers) ==
    IF attempt >= admin_retry_attempts
    THEN [NoAdmin EXCEPT !.polls = attempt]
    ELSE IF containers[attempt + 1] # None
    THEN [polls |-> attempt + 1, create_root |-> TRUE, creates |-> 1,
          primaryIp |-> topology[attempt + 1], container |-> containers[attempt + 1]]
    ELSE admin_attempt_without_primary(attempt + 1, topology, containers)

RECURSIVE admin_attempt(_, _, _)
admin_attempt(attempt, topology, containers) ==
    IF attempt >= admin_retry_attempts
    THEN [NoAdmin EXCEPT !.polls = attempt]
    ELSE IF topology[attempt + 1] # None /\ containers[attempt + 1] # None
    THEN [polls |-> attempt + 1, create_root |-> TRUE, creates |-> 1,
          primaryIp |-> topology[attempt + 1], container |-> containers[attempt + 1]]
    ELSE admin_attempt(attempt + 1, topology, containers)

initialize_mongodb_admin(topology, containers) == admin_attempt(0, topology, containers)

\* ------------------------------------------------------------- init_replica
\* "retry_attempts=6" of the wait for task ids and ips.
init_retry_attempts == 6

\* env: ip_order (the order in which the set mongo_tasks_ips is enumerated),
\* container (a container matches the service name), initiate (the shell's
\* answer to rs.initiate: "ok", "auth_required" or "failed"), handoff (the
\* answer to the forced replSetReconfig), topology and admin_containers (see
\* initialize_mongodb_admin).
NoHandoff ==
    [target |-> None, config |-> NoConfig, force |-> FALSE, sends |-> 0,
     accepted |-> FALSE, raised |-> FALSE]
NoInit ==
    [outcome |-> "none", raised |-> FALSE, target |-> None, config |-> NoConfig,
     order |-> <<>>, initiate_sent |-> FALSE, initiated |-> FALSE,
     handoff |-> NoHandoff,
     admin_entered |-> FALSE, admin_polls |-> 0, create_root |-> FALSE]

init_replica(mongo_tasks, mongo_tasks_ips, env) ==
    LET config == create_mongo_config(env.ip_order)
        primary_ip == env.ip_order[1]
        handoff == reconfigure_replica_set(primary_ip, config, env.handoff)
        admin == initialize_mongodb_admin(env.topology, env.admin_containers)
        with_admin(r) == [r EXCEPT !.admin_entered = TRUE, !.admin_polls = admin.polls,
                                   !.create_root = admin.create_root]
    IN  IF Len(mongo_tasks) = 0 \/ mongo_tasks_ips = {}
        THEN [NoInit EXCEPT !.outcome = "no_tasks"]
        ELSE IF ~env.container
        THEN [NoInit EXCEPT !.outcome = "no_container", !.target = primary_ip,
                            !.config = config, !.order = env.ip_order]
        ELSE IF env.initiate = "ok"
        THEN with_admin([NoInit EXCEPT !.outcome = "initiated", !.target = primary_ip,
                                       !.config = config, !.order = env.ip_order,
                                       !.initiate_sent = TRUE,
                                       !.initiated = TRUE])
        ELSE IF env.initiate = "auth_required"
        THEN [NoInit EXCEPT !.outcome = "handoff", !.target = primary_ip,
                            !.config = config, !.order = env.ip_order,
                            !.initiate_sent = TRUE, !.handoff = handoff,
                            !.raised = handoff.raised]
        ELSE with_admin([NoInit EXCEPT !.outcome = "failed", !.target = primary_ip,
                                       !.config = config, !.order = env.ip_order,
                                       !.initiate_sent = TRUE])

\* --------------------------------------------------- setup_initial_database
\* env: primary_ip (what get_primary_ip returned), create_user (the answer to
\* createUser: "ok", "exists" (code 51003) or "failed") and insert (the answer
\* to insert_one: "ok" or "failed").
\* outcome: "no_primary" (logged as an error, nothing sent), "completed",
\* "exists" (code 51003, logged as info) or "error" (any other exception,
\* logged as an error).
setup_outcome(create_user, insert) ==
    IF create_user = "ok" /\ insert = "ok" THEN "completed"
    ELSE IF create_user = "exists" THEN "exists"
    ELSE "error"

\* A bootstrap that inserts the marker document although createUser answered
\* 51003: not what the code does; idempotence must tell it apart from
\* setup_initial_database.
setup_initial_database_insert_on_exists(primary_ip, create_user, insert) ==
    IF primary_ip = None
    THEN [outcome |-> "no_primary", error_logged |-> TRUE,
          create_user_sent |-> FALSE, user_created |-> FALSE, marker_inserted |-> FALSE]
    ELSE [outcome |-> setup_outcome(create_user, insert),
          error_logged |-> setup_outcome(create_user, insert) = "error",
          create_user_sent |-> TRUE, user_created |-> create_user = "ok",
          marker_inserted |-> create_user \in {"ok", "exists"}]

\* An insert that is not skipped when createUser raises: not what the code
\* does; the count of marker documents must tell it apart from
\* setup_initial_database.
setup_initial_database_insert_after_error(primary_ip, create_user, insert) ==
    IF primary_ip = None
    THEN [outcome |-> "no_primary", error_logged |-> TRUE,
          create_user_sent |-> FALSE, user_created |-> FALSE, marker_inserted |-> FALSE]
    ELSE [outcome |-> setup_outcome(create_user, insert),
          error_logged |-> setup_outcome(create_user, insert) = "error",
          create_user_sent |-> TRUE, user_created |-> create_user = "ok",
          marker_inserted |-> (create_user = "ok" => insert = "ok")]

setup_initial_database(primary_ip, create_user, insert) ==
    IF primary_ip = None
    THEN [outcome |-> "no_primary", error_logged |-> TRUE,
          create_user_sent |-> FALSE, user_created |-> FALSE, marker_inserted |-> FALSE]
    ELSE [outcome |-> setup_outcome(create_user, insert),
          error_logged |-> setup_outcome(create_user, insert) = "error",
          create_user_sent |-> TRUE, user_created |-> create_user = "ok",
          marker_inserted |-> create_user = "ok" /\ insert = "ok"]

\* ------------------------------------------------- create_mongodb_root_user
\* The shell's answer to admin.createUser: "ok" (exit code 0), "exists"
\* ("Command createUser requires authentication") or "failed".
create_mongodb_root_user(answer) == [root_created |-> answer = "ok"]

\* ----------------------------------------------------------------- __main__
\* "attempts = 40"
start_attempts == 40

\* while service_down and attempts > 0: service_down = not is_service_up(...);
\* attempts -= 1.  up_at is the first check at which is_service_up answers
\* True (0: at none of them).
RECURSIVE wait_for_service(_, _, _, _)
wait_for_service(attempts, service_down, checks, up_at) ==
    IF service_down /\ attempts > 0
    THEN wait_for_service(attempts - 1, ~(checks + 1 = up_at), checks + 1, up_at)
    ELSE [attempts |-> attempts, service_down |-> service_down, checks |-> checks]

\* "if attempts <= 0 or not mongo_service: sys.exit(1)", else manage_replica.
\* (get_mongo_service returns a service or raises; it never returns None.)
NoStartup == [checks |-> 0, up |-> FALSE, exit_code |-> None]
main(up_at) ==
    LET waited == wait_for_service(start_attempts, TRUE, 0, up_at)
    IN  [checks |-> waited.checks, up |-> ~waited.service_down,
         exit_code |-> IF waited.attempts <= 0 THEN 1 ELSE None]

\* ------------------------------------------------------------------- state
VARIABLES
    pc,                  \* where manage_replica stands
    mongo_tasks_ips,     \* manage_replica: the task ips read at start-up, in order
    new_member_ips,      \* the task-ip set read last (start-up or watch tick)
    current_member_ips,  \* manage_replica: KnownMemberIPs
    primary_ip,          \* manage_replica: the held primary, or None
    dbConfig,            \* the replica set's config document, or NoConfig
    dbPrimary,           \* the member that is writable primary, or None
    dbUsers,             \* users of the database: subset of {"root", "app"}
    dbMarkers,           \* marker documents in the users collection
    call,                \* the locals of the update_config call in progress
    sent,                \* how the latest update_config call ended
    init,                \* the init_replica call made by the latest step
    boot,                \* the setup_initial_database call made by the latest step
    stable_ticks,        \* consecutive watch ticks that read the same task set (capped at 2)
    startup,             \* the start-up wait of __main__ made by the latest step
    probe                \* one function of the controller applied on its own: inputs and result

\* The state of the controller and the database.
run == <<pc, mongo_tasks_ips, new_member_ips, current_member_ips, primary_ip,
         dbConfig, dbPrimary, dbUsers, dbMarkers, call, sent, init, boot,
         stable_ticks, startup>>
vars == <<run, probe>>

\* No function is applied on its own while the controller runs.
NoProbe == [fn |-> "none", done |-> FALSE]

NoBoot ==
    [outcome |-> "none", error_logged |-> FALSE,
     create_user_sent |-> FALSE, user_created |-> FALSE, marker_inserted |-> FALSE]
\* sends: the replSetReconfig commands of the call; result: "applied" (the
\* database accepted one), "failed" (none was accepted) or "none" (no call
\* ended in the latest step); read_target: the node the call sent a
\* replSetGetConfig to that failed (None: the read did not fail).
NoSend == [result |-> "none", sends |-> 0, read_target |-> None]

\* ------------------------------------------------------------- environment
\* The ips of S in ascending order.
RECURSIVE Ascending(_)
Ascending(S) ==
    IF S = {} THEN <<>>
    ELSE LET m == CHOOSE x \in S : \A y \in S : x <= y
         IN  <<m>> \o Ascending(S \ {m})

\* The config a node holds: the set's config on its members, none elsewhere.
Stored(config) == [ip \in IPs |-> IF ip \in MemberIps(config) THEN config ELSE NoConfig]

\* A node's answer to hello: nodes outside up do not answer; a node outside
\* the set reports no set name; at most one member is writable.  (With at
\* most one writable node the result of get_primary_ip does not depend on the
\* order in which a set of ips is enumerated, so sets are scanned in ascending
\* order.)
Hello(up, config, primary) ==
    [ip \in IPs |->
        IF ip \notin up THEN "timeout"
        ELSE IF ip \notin MemberIps(config) THEN "uninit"
        ELSE IF ip = primary THEN "primary"
        ELSE "secondary"]

\* The reachability cases update_config and get_primary_ip can tell apart,
\* one representative each: every task answers; all but the primary answer;
\* no member of the set answers.
Reach(ips, config, primary) ==
    {ips, ips \ {primary}, ips \ MemberIps(config)}

\* The documents the database accepts at all.
WellFormed(config) ==
    /\ Len(config.members) >= 1
    /\ DistinctIds(config)
    /\ DistinctHosts(config)
    /\ config.version <= MaxVersion
    /\ \A id \in MemberIds(config) : id <= MaxId

\* replSetReconfig can succeed only on a node that holds a config, and
\* without force only on the writable primary.
DbAccepts(target, force, config) ==
    /\ target \in MemberIps(dbConfig)
    /\ force \/ target = dbPrimary
    /\ WellFormed(config)

\* replSetGetConfig can succeed only on a reachable node that holds a config.
DbReads(target, up) == target \in up /\ target \in MemberIps(dbConfig)

\* The answers to the up to three replSetReconfig of one update_config call.
\* (Answers after the one that ends the loop are never asked for.)
RefusedRun == <<"opfail", "opfail", "opfail">>
ReconfigRuns ==
    { <<"ok", "opfail", "opfail">>, <<"timeout", "opfail", "opfail">>,
      <<"opfail", "ok", "opfail">>, <<"opfail", "opfail", "ok">>,
      <<"opfail", "opfail", "timeout">>, RefusedRun }

PrimaryAfter(config) == IF dbPrimary \in MemberIps(config) THEN dbPrimary ELSE None

\* The hello answers initialize_mongodb_admin polls for: a primary is named
\* from poll named_at on (0: never).
AdminTopology(named_at, primary) ==
    [k \in 1..admin_retry_attempts |->
        IF named_at # 0 /\ k >= named_at THEN primary ELSE None]

\* What dc.containers.list() gives initialize_mongodb_admin: a container of
\* the service that runs node, from the look-up found_at on (0: at none).
AdminContainers(found_at, node) ==
    [k \in 1..admin_retry_attempts |->
        IF found_at # 0 /\ k >= found_at THEN node ELSE None]

\* The orders in which Python may enumerate the set S, as far as the code
\* can tell them apart when it reads element [0] only.
Firsts(S) ==
    IF S = {} THEN {<<>>} ELSE {<<x>> \o Ascending(S \ {x}) : x \in S}

\* ------------------------------------------------------------------ actions
\* The controller starts against a database that was never initialised, or
\* against a replica set an earlier run of the controller initialised on the
\* ips 1..n (config, root user, application user and marker document).
Init ==
    /\ pc = "starting"
    /\ startup = NoStartup
    /\ mongo_tasks_ips = <<>>
    /\ new_member_ips = {}
    /\ current_member_ips = {}
    /\ primary_ip = None
    /\ \/ /\ dbConfig = NoConfig
          /\ dbPrimary = None
          /\ dbUsers = {}
          /\ dbMarkers = 0
       \/ /\ \E n \in IPs : dbConfig = create_mongo_config(Ascending(1..n))
          /\ dbPrimary \in MemberIps(dbConfig) \cup {None}
          /\ dbUsers = {"root", "app"}
          /\ dbMarkers = 1
    /\ call = NoCall
    /\ sent = NoSend
    /\ init = NoInit
    /\ boot = NoBoot
    /\ stable_ticks = 0
    /\ probe = NoProbe

\* The checks at which the service can first be fully up: never, at the first
\* ones, at the last ones.
ServiceUpAt == {0, 1, 2, start_attempts - 1, start_attempts}

\* __main__: wait for the service, then exit or enter manage_replica.
Main ==
    /\ pc = "starting"
    /\ \E up_at \in ServiceUpAt :
       \E done \in {main(up_at)} :
          /\ startup' = done
          /\ pc' = IF done.exit_code = 1 THEN "exited" ELSE "classify"
    /\ UNCHANGED <<mongo_tasks_ips, new_member_ips, current_member_ips, primary_ip,
                   dbConfig, dbPrimary, dbUsers, dbMarkers, call, sent, init, boot,
                   stable_ticks, probe>>

\* A dispatch that initiates whenever the configured ips differ from the task
\* ips: not what the code does; the guard of init_replica must tell it apart
\* from classification.
classification_fresh_on_mismatch(current_ips, tasks_ips) ==
    IF current_ips # Range(tasks_ips) THEN "initiating" ELSE "watching"

\* A dispatch that always takes the fresh-initialisation branch: not what the
\* code does; the guard of setup_initial_database must tell it apart from
\* classification.
classification_always_fresh(current_ips, tasks_ips) == "initiating"

\* A dispatch that reconfigures whenever a config was found, the configured
\* ips equal to the task ips or not: not what the code does; the assertion of
\* update_config must tell it apart from classification.
classification_reconfigure_on_match(current_ips, tasks_ips) ==
    IF Cardinality(current_ips) = 0 THEN "initiating" ELSE "reconfiguring"

\* The dispatch of manage_replica: "if len(current_member_ips) == 0",
\* "elif set(current_member_ips) != set(mongo_tasks_ips)", "else".
classification(current_ips, tasks_ips) ==
    IF Cardinality(current_ips) = 0 THEN "initiating"
    ELSE IF current_ips # Range(tasks_ips) THEN "reconfiguring"
    ELSE "watching"

\* manage_replica up to the dispatch: read the task ips, gather the configured
\* member ips, resolve the primary.
Classify ==
    /\ pc = "classify"
    /\ \E tasks_ips \in TaskLists, passes \in 1..max_retries :
       \E answer \in [Range(tasks_ips) -> ProbeAnswers] :
       \E gathered \in {gather_configured_members_ips(tasks_ips,
                            [k \in 1..max_retries |->
                                IF k < passes THEN [ip \in Range(tasks_ips) |-> "nyi"]
                                ELSE answer],
                            Stored(dbConfig))} :
          LET up == {ip \in Range(tasks_ips) : answer[ip] # "timeout"}
              hello == Hello(up, dbConfig, dbPrimary)
              K == gathered.current_ips
          IN  /\ \A ip \in Range(tasks_ips) :
                    answer[ip] = "config" => ip \in MemberIps(dbConfig)
              /\ gathered.passes = passes
              /\ mongo_tasks_ips' = tasks_ips
              /\ new_member_ips' = Range(tasks_ips)
              /\ current_member_ips' = K
              /\ primary_ip' = IF K # {} /\ K # Range(tasks_ips)
                               THEN get_primary_ip(tasks_ips, hello)
                               ELSE get_primary_ip(Ascending(K), hello)
              /\ pc' = classification(K, tasks_ips)
    /\ startup' = NoStartup
    /\ UNCHANGED <<dbConfig, dbPrimary, dbUsers, dbMarkers, call, sent, init, boot,
                   stable_ticks, probe>>

\* update_config is called with new_ips and runs up to its first
\* replSetReconfig.  If it raises, the exception leaves manage_replica and
\* ends the process; if the config read fails, update_config returns and
\* manage_replica goes on with the two statements after the call.
StartUpdate(new_ips, up) ==
    \E add_order \in Perms(to_add(current_member_ips, new_ips)) :
    \E old_order \in IF primary_lost(primary_ip, current_member_ips, new_ips)
                     THEN Firsts(new_ips \ to_add(current_member_ips, new_ips))
                     ELSE {Ascending(new_ips \ to_add(current_member_ips, new_ips))} :
    \E new_order \in IF primary_lost(primary_ip, current_member_ips, new_ips)
                        /\ old_order = <<>>
                     THEN Firsts(new_ips) ELSE {Ascending(new_ips)} :
    \E read \in {"ok", "timeout", "opfail"} :
    \E started \in {update_config(primary_ip, current_member_ips, new_ips,
                        [hello |-> Hello(up, dbConfig, dbPrimary),
                         new_order |-> new_order, old_order |-> old_order,
                         add_order |-> add_order, read |-> read,
                         stored |-> Stored(dbConfig)])} :
        /\ started.stage = "sending" => DbReads(started.target, up)
        /\ started.stage # "sending" => add_order = Ascending(to_add(current_member_ips, new_ips))
        /\ IF started.stage = "sending"
           THEN /\ pc' = "sending"
                /\ call' = started
                /\ sent' = NoSend
                /\ UNCHANGED <<current_member_ips, primary_ip>>
           ELSE IF started.stage = "raised"
           THEN /\ pc' = "crashed"
                /\ call' = started
                /\ sent' = NoSend
                /\ UNCHANGED <<current_member_ips, primary_ip>>
           ELSE /\ pc' = "watching"
                /\ call' = NoCall
                /\ sent' = [result |-> "failed", sends |-> 0,
                            read_target |-> started.target]
                /\ current_member_ips' = new_ips
                /\ primary_ip' = get_primary_ip(Ascending(new_ips),
                                                Hello(up, dbConfig, dbPrimary))
        /\ UNCHANGED <<dbConfig, dbPrimary>>

\* manage_replica, "Redeployment detected": a config was found and its
\* member ips differ from the task ips.
Redeploy ==
    /\ pc = "reconfiguring"
    /\ \E up \in Reach(Range(mongo_tasks_ips), dbConfig, dbPrimary) :
          StartUpdate(Range(mongo_tasks_ips), up)
    /\ mongo_tasks_ips' = <<>>
    /\ UNCHANGED <<new_member_ips, dbUsers, dbMarkers, init, boot, stable_ticks,
                   startup, probe>>

\* A difference that is non-empty whenever current_member_ips is: not what
\* the code does; the no-op tick must tell it apart from symmetric_difference.
symmetric_difference_or_known(current_ips, new_ips) ==
    (current_ips \ new_ips) \cup (new_ips \ current_ips) \cup current_ips

\* current_member_ips.symmetric_difference(new_member_ips)
symmetric_difference(current_ips, new_ips) ==
    (current_ips \ new_ips) \cup (new_ips \ current_ips)

\* One iteration of "while True" in manage_replica, up to the first
\* replSetReconfig of update_config when the task ips changed.
WatchTick ==
    /\ pc = "watching"
    /\ \E new_ips \in SUBSET IPs :
       \E up \in Reach(new_ips, dbConfig, dbPrimary) :
          /\ new_member_ips' = new_ips
          /\ stable_ticks' = IF stable_ticks >= 1 /\ new_ips = new_member_ips THEN 2 ELSE 1
          /\ IF symmetric_difference(current_member_ips, new_ips) # {}
             THEN StartUpdate(new_ips, up)
             ELSE /\ current_member_ips' = new_ips
                  /\ primary_ip' = get_primary_ip(Ascending(new_ips),
                                                  Hello(up, dbConfig, dbPrimary))
                  /\ call' = NoCall
                  /\ sent' = NoSend
                  /\ UNCHANGED <<pc, dbConfig, dbPrimary>>
    /\ mongo_tasks_ips' = <<>>
    /\ init' = NoInit
    /\ boot' = NoBoot
    /\ UNCHANGED <<dbUsers, dbMarkers, startup, probe>>

\* The retry loop of replSetReconfig in update_config, its handlers, and the
\* two statements of manage_replica after the call: current_member_ips is
\* set to the new task set and the primary is resolved again.
SendReconfig ==
    /\ pc = "sending"
    /\ \E up \in Reach(call.new_ips, dbConfig, dbPrimary) :
       \E answers \in IF DbAccepts(call.target, call.force, call.config)
                      THEN ReconfigRuns
                      ELSE {r \in ReconfigRuns : \A k \in DOMAIN r : r[k] # "ok"} :
       \E loop \in {reconfig_loop(reconfig_attempts, answers, 0)} :
       \E config \in {IF loop.accepted THEN call.config ELSE dbConfig} :
          /\ dbConfig' = config
          /\ dbPrimary' = PrimaryAfter(config)
          /\ sent' = [result |-> IF loop.accepted THEN "applied" ELSE "failed",
                      sends |-> loop.sends, read_target |-> None]
          /\ current_member_ips' = call.new_ips
          /\ primary_ip' = get_primary_ip(Ascending(call.new_ips),
                                          Hello(up, config, PrimaryAfter(config)))
    /\ pc' = "watching"
    /\ call' = NoCall
    /\ UNCHANGED <<mongo_tasks_ips, new_member_ips, dbUsers, dbMarkers, init, boot,
                   stable_ticks, startup, probe>>

\* The replica set elects another primary, or loses the one it has.
Election ==
    /\ pc \notin {"starting", "exited", "crashed"}
    /\ dbConfig # NoConfig
    /\ \E p \in MemberIps(dbConfig) \cup {None} :
          /\ p # dbPrimary
          /\ dbPrimary' = p
    /\ sent' = NoSend
    /\ init' = IF pc = "bootstrapping" THEN init ELSE NoInit
    /\ boot' = NoBoot
    /\ startup' = NoStartup
    /\ UNCHANGED <<pc, mongo_tasks_ips, new_member_ips, current_member_ips, primary_ip,
                   dbConfig, dbUsers, dbMarkers, call, stable_ticks, probe>>

\* manage_replica, "No previous replicaSet configuration found":
\* current_member_ips = set(mongo_tasks_ips), then init_replica.  A timeout
\* of the hand-off's replSetReconfig is not an OperationFailure: it leaves
\* reconfigure_replica_set, init_replica and manage_replica.
InitReplica ==
    /\ pc = "initiating"
    /\ current_member_ips' = Range(mongo_tasks_ips)
    /\ \E ip_order \in Perms(Range(mongo_tasks_ips)), container \in BOOLEAN,
          initiate \in {"ok", "auth_required", "failed"},
          handoff \in {"ok", "opfail", "timeout"},
          named_at \in {0, 1, admin_retry_attempts},
          admin_container \in Range(mongo_tasks_ips) \cup {None},
          root \in {"ok", "exists", "failed"} :
       \E target \in {IF ip_order = <<>> THEN None ELSE ip_order[1]} :
       \E done \in {init_replica(mongo_tasks_ips, Range(mongo_tasks_ips),
                        [ip_order |-> ip_order, container |-> container,
                         initiate |-> initiate, handoff |-> handoff,
                         topology |-> AdminTopology(named_at, target),
                         admin_containers |-> AdminContainers(1, admin_container)])} :
          LET accepted == done.handoff.accepted
              installed == done.initiated \/ accepted
          IN  \* inputs the run never asks for are fixed
              /\ done.outcome \in {"no_tasks", "no_container"} => initiate = "failed"
              /\ done.outcome # "handoff" => handoff = "opfail"
              /\ ~done.admin_entered => named_at = 0 /\ admin_container = None
              /\ ~done.create_root => root = "failed"
              \* what the database can answer
              /\ done.initiated =>
                    dbConfig = NoConfig /\ dbUsers = {} /\ WellFormed(done.config)
              /\ done.outcome = "handoff" => dbUsers # {}
              /\ done.outcome = "failed" => named_at = 0 \/ dbPrimary = target
              /\ accepted => DbAccepts(done.handoff.target, done.handoff.force,
                                       done.handoff.config)
              /\ root = "ok" => dbUsers = {} /\ admin_container = target
              /\ root = "exists" => dbUsers # {}
              /\ init' = done
              /\ dbConfig' = IF installed THEN done.config ELSE dbConfig
              /\ dbPrimary' = IF done.initiated
                              THEN (IF named_at # 0 THEN target ELSE None)
                              ELSE IF accepted THEN PrimaryAfter(done.config)
                              ELSE dbPrimary
              /\ dbUsers' = IF done.create_root /\ create_mongodb_root_user(root).root_created
                            THEN dbUsers \cup {"root"} ELSE dbUsers
              /\ pc' = IF done.raised THEN "crashed" ELSE "bootstrapping"
    /\ UNCHANGED <<mongo_tasks_ips, new_member_ips, primary_ip, dbMarkers, call, sent,
                   boot, stable_ticks, startup, probe>>

\* manage_replica, the call of setup_initial_database after init_replica.
SetupInitialDatabase ==
    /\ pc = "bootstrapping"
    /\ \E up \in Reach(current_member_ips, dbConfig, dbPrimary),
          create_user \in {"ok", "exists", "failed"}, insert \in {"ok", "failed"} :
       \E primary \in {get_primary_ip(Ascending(current_member_ips),
                                      Hello(up, dbConfig, dbPrimary))} :
       \E done \in {setup_initial_database(primary, create_user, insert)} :
          /\ ~done.create_user_sent => create_user = "failed"
          /\ ~done.user_created => insert = "failed"
          /\ create_user = "ok" => "root" \in dbUsers /\ "app" \notin dbUsers
          /\ create_user = "exists" => "app" \in dbUsers
          /\ boot' = done
          /\ dbUsers' = IF done.user_created THEN dbUsers \cup {"app"} ELSE dbUsers
          /\ dbMarkers' = IF done.marker_inserted THEN dbMarkers + 1 ELSE dbMarkers
    /\ pc' = "watching"
    /\ UNCHANGED <<mongo_tasks_ips, new_member_ips, current_member_ips, primary_ip,
                   dbConfig, dbPrimary, call, sent, init, stable_ticks, startup, probe>>

Next ==
    \/ Main
    \/ Classify
    \/ InitReplica
    \/ SetupInitialDatabase
    \/ Redeploy
    \/ WatchTick
    \/ SendReconfig
    \/ Election

Spec == Init /\ [][Next]_vars

\* ------------------------------------------- functions applied on their own
\* The controller and the database at rest while one function is applied to
\* inputs drawn from every answer the nodes can give.
AtRest ==
    /\ pc = "function"
    /\ mongo_tasks_ips = <<>>
    /\ new_member_ips = {}
    /\ current_member_ips = {}
    /\ primary_ip = None
    /\ dbConfig = NoConfig
    /\ dbPrimary = None
    /\ dbUsers = {}
    /\ dbMarkers = 0
    /\ call = NoCall
    /\ sent = NoSend
    /\ init = NoInit
    /\ boot = NoBoot
    /\ stable_ticks = 0
    /\ startup = NoStartup

\* gather_configured_members_ips.  The nodes hold the config of one set, or
\* each the config of a set of its own (nodes of sets initiated apart); a
\* node that holds a config may still answer NotYetInitialized while it loads
\* it.  The first pass draws every answer; a later pass repeats the first or
\* gives one answer on all nodes.
GatherStored(tasks_ips) ==
    { [ip \in IPs |-> create_mongo_config(tasks_ips \o Ascending(IPs \ Range(tasks_ips)))],
      [ip \in IPs |-> create_mongo_config(<<ip>>)] }
LaterAnswers(tasks_ips, first) ==
    {first} \cup {[ip \in Range(tasks_ips) |-> a] : a \in {"config", "nyi", "timeout"}}

GatherInit ==
    /\ AtRest
    /\ \E tasks_ips \in TaskLists :
       \E first \in [Range(tasks_ips) -> ProbeAnswers] :
       \E second \in LaterAnswers(tasks_ips, first), third \in LaterAnswers(tasks_ips, first) :
       \E stored \in GatherStored(tasks_ips) :
          probe = [fn |-> "gather", done |-> FALSE, tasks_ips |-> tasks_ips,
                   answers |-> <<first, second, third>>, stored |-> stored,
                   out |-> [current_ips |-> {}, passes |-> 0, node |-> None, probed |-> 0]]

GatherApply ==
    /\ probe.fn = "gather"
    /\ ~probe.done
    /\ probe' = [probe EXCEPT !.done = TRUE,
                              !.out = gather_configured_members_ips(
                                          probe.tasks_ips, probe.answers, probe.stored)]
    /\ UNCHANGED run

GatherSpec == GatherInit /\ [][GatherApply]_vars

\* initialize_mongodb_admin.  hello names the primary from one poll on, or
\* never; a container of the service is found from one look-up on, or never,
\* and it runs any node.
AdminInit ==
    /\ AtRest
    /\ \E named_at \in 0..admin_retry_attempts, primary \in IPs :
       \E found_at \in 0..admin_retry_attempts, node \in IPs :
          probe = [fn |-> "admin", done |-> FALSE,
                   topology |-> AdminTopology(named_at, primary),
                   containers |-> AdminContainers(found_at, node),
                   out |-> NoAdmin]

AdminApply ==
    /\ probe.fn = "admin"
    /\ ~probe.done
    /\ probe' = [probe EXCEPT !.done = TRUE,
                              !.out = initialize_mongodb_admin(probe.topology,
                                                               probe.containers)]
    /\ UNCHANGED run

AdminSpec == AdminInit /\ [][AdminApply]_vars

\* The choice of the node update_config connects to.  The held primary is a
\* known member or None, the two ip sets differ, the new one is not empty,
\* and each node of the new set gives any answer to hello.
TargetInit ==
    /\ AtRest
    /\ \E current_ips \in SUBSET IPs, new_ips \in (SUBSET IPs) \ {{}} :
       \E held \in current_ips \cup {None} :
       \E answer \in [new_ips -> HelloAnswers] :
       \E new_order \in Firsts(new_ips) :
       \E old_order \in Firsts(new_ips \ to_add(current_ips, new_ips)) :
          /\ current_ips # new_ips
          /\ probe = [fn |-> "target", done |-> FALSE, primary_ip |-> held,
                      current_ips |-> current_ips, new_ips |-> new_ips,
                      hello |-> [ip \in IPs |-> IF ip \in new_ips THEN answer[ip]
                                                ELSE "timeout"],
                      new_order |-> new_order, old_order |-> old_order,
                      out |-> [primary_ip |-> None, polls |-> 0, skipped |-> FALSE],
                      force |-> FALSE]

TargetApply ==
    /\ probe.fn = "target"
    /\ ~probe.done
    /\ probe' = [probe EXCEPT
                    !.done = TRUE,
                    !.out = reconfig_target(probe.primary_ip, probe.current_ips,
                                probe.new_ips, probe.hello, probe.new_order,
                                probe.old_order),
                    !.force = force_flag(probe.primary_ip, probe.current_ips,
                                         probe.new_ips)]
    /\ UNCHANGED run

TargetSpec == TargetInit /\ [][TargetApply]_vars

\* get_primary_ip.  Any list of distinct ips, any answer of each of its nodes
\* to hello (two nodes may both answer as writable primary).
PrimaryInit ==
    /\ AtRest
    /\ \E tasks_ips \in TaskLists :
       \E answer \in [Range(tasks_ips) -> HelloAnswers] :
          probe = [fn |-> "primary", done |-> FALSE, tasks_ips |-> tasks_ips,
                   hello |-> [ip \in IPs |-> IF ip \in Range(tasks_ips) THEN answer[ip]
                                             ELSE "timeout"],
                   out |-> [primary_ip |-> None, probed |-> 0], primary_ip |-> None]

PrimaryApply ==
    /\ probe.fn = "primary"
    /\ ~probe.done
    /\ probe' = [probe EXCEPT
                    !.done = TRUE,
                    !.out = scan_for_primary(probe.tasks_ips, probe.hello, 1),
                    !.primary_ip = get_primary_ip(probe.tasks_ips, probe.hello)]
    /\ UNCHANGED run

PrimarySpec == PrimaryInit /\ [][PrimaryApply]_vars

\* ------------------------------------------------------------------- claims
\* toRemove and toAdd of the update_config call in progress.
call_remove == to_remove(call.current_ips, call.new_ips)
call_add == to_add(call.current_ips, call.new_ips)

\* C1 (membership convergence): once two consecutive watch ticks have read
\* the same task-ip set T, the config the database holds has exactly the
\* member ips of T, whatever it answered to the reconfigure of the first of
\* the two ticks.
C1_MembershipConverges ==
    (pc = "watching" /\ stable_ticks = 2) => MemberIps(dbConfig) = new_member_ips

\* C2: a step that ends an update_config call without the database having
\* accepted a config (the config read failed, or no replSetReconfig was
\* accepted) leaves current_member_ips as it was before the call.
C2_KnownKeptOnFailure ==
    [][sent'.result = "failed" => current_member_ips' = current_member_ips]_vars

\* C3: on the fresh-initialisation path current_member_ips is set to the task
\* ips only when the set was initiated; when init_replica returns without
\* having initiated it (no container, rs.initiate failed, no task ips),
\* current_member_ips is still empty.
C3_KnownSetOnlyAfterInitiate ==
    init.outcome \in {"no_tasks", "no_container", "failed"} => current_member_ips = {}

\* C4 (version monotonicity): every replSetReconfig the database accepts, from
\* update_config or from the hand-off of init_replica, leaves the set with a
\* config version strictly greater than before.
C4_VersionIncreases ==
    [][(dbConfig # NoConfig /\ dbConfig' # dbConfig)
          => dbConfig'.version > dbConfig.version]_vars

\* C5 (ids are never reused): an _id the config read from the database gives
\* to one host is not given to another host by the config update_config
\* builds from it.
C5_IdsNeverReused ==
    pc = "sending" =>
        \A i \in DOMAIN call.read.members, j \in DOMAIN call.config.members :
            call.read.members[i]._id = call.config.members[j]._id
                => call.read.members[i].host = call.config.members[j].host

\* C6 (id stability): every member of the config read whose ip is not in
\* to_remove is a member of the config built, with the same _id and host.
C6_KeptMembersUnchanged ==
    pc = "sending" =>
        \A i \in DOMAIN call.read.members :
            HostIp(call.read.members[i].host) \notin call_remove
                => \E j \in DOMAIN call.config.members :
                      call.config.members[j] = call.read.members[i]

\* A call that removes a member listed before one it keeps, and adds one.
C6_Witness ==
    /\ pc = "sending"
    /\ call_add # {}
    /\ \E i, j \in DOMAIN call.read.members :
          /\ i < j
          /\ HostIp(call.read.members[i].host) \in call_remove
          /\ HostIp(call.read.members[j].host) \notin call_remove

\* C7 (no duplicate ids): the fresh config of create_mongo_config has
\* pairwise-distinct _id values, and so has every config update_config builds
\* from a config with pairwise-distinct _id values.
C7_DistinctIds ==
    /\ DistinctIds(init.config)
    /\ ((pc = "sending" /\ DistinctIds(call.read)) => DistinctIds(call.config))

\* A call that adds two members to the one it keeps.
C7_Witness ==
    /\ pc = "sending"
    /\ Cardinality(call_add) >= 2
    /\ Len(call.config.members) >= 3
    /\ DistinctIds(call.read)

\* C8: every config update_config is about to submit has pairwise-distinct
\* member hosts.
C8_DistinctHosts ==
    pc = "sending" => DistinctHosts(call.config)

\* C9: the force flag of the replSetReconfig is true whenever the held
\* primary is in to_remove, or is None, or the call adds and removes more
\* than one member in total.
C9_ForceWhenRequired ==
    (/\ pc = "sending"
     /\ \/ call.primary_ip \in call_remove
        \/ call.primary_ip = None
        \/ Cardinality(call_add) + Cardinality(call_remove) > 1)
    => call.force

\* C10 (scale-out): a watch tick with a held primary P that is in the new
\* task set, one ip x added and none removed, sends replSetReconfig to P with
\* force false and a config with the read version + 1 whose members are the
\* members read, unchanged, followed by x with _id = max(ids read) + 1.
C10_ScaleOut ==
    (/\ pc = "sending"
     /\ stable_ticks >= 1
     /\ call.primary_ip # None
     /\ call.primary_ip \in call.new_ips
     /\ call_remove = {}
     /\ Cardinality(call_add) = 1)
    => /\ call.target = call.primary_ip
       /\ call.force = FALSE
       /\ call.config.version = call.read.version + 1
       /\ \E x \in call_add :
             call.config.members =
                 call.read.members \o
                     <<[_id |-> Max(MemberIds(call.read)) + 1,
                        host |-> FormatHost(x, mongo_port)]>>

\* A scale-out of a set of two members.
C10_Witness ==
    /\ pc = "sending"
    /\ stable_ticks >= 1
    /\ call.primary_ip # None
    /\ call.primary_ip \in call.new_ips
    /\ call_remove = {}
    /\ Cardinality(call_add) = 1
    /\ Len(call.read.members) = 2
    /\ Len(call.config.members) = 3

\* C11 (primary loss): when the held primary is in to_remove or is None,
\* update_config polls for a writable primary among the new ips at most 6
\* times and sends with force true; when all 6 polls found none, the target
\* is a surviving old member (an ip of new_ips \ to_add) if there is one, and
\* a member of new_ips otherwise.
C11_PrimaryLoss ==
    (/\ pc = "sending"
     /\ primary_lost(call.primary_ip, call.current_ips, call.new_ips))
    => /\ call.polls <= primary_wait_attempts
       /\ call.force = TRUE
       /\ call.polls = primary_wait_attempts =>
             IF call.new_ips \ call_add # {}
             THEN call.target \in call.new_ips \ call_add
             ELSE call.target \in call.new_ips

\* The held primary was removed, a member of the new set reports a set name,
\* six polls found no writable primary, and a surviving old member is the
\* target of a single-member change.
C11_Witness ==
    /\ pc = "sending"
    /\ call.primary_ip \in call_remove
    /\ call.polls = primary_wait_attempts
    /\ call.target \in call.new_ips \ call_add
    /\ Cardinality(call_remove) = 1
    /\ call_add = {}
    /\ call.force

\* C12 (no-op tick): a watch tick that reads a task-ip set equal to
\* current_member_ips makes no update_config call (no replSetGetConfig, no
\* replSetReconfig) and leaves the database config and current_member_ips as
\* they were; only the held primary may change.  (From pc = "watching" the
\* steps that leave dbPrimary alone are the watch ticks.)
C12_NoOpTick ==
    [][(/\ pc = "watching"
        /\ dbPrimary' = dbPrimary
        /\ new_member_ips' = current_member_ips)
       => /\ pc' = "watching"
          /\ call' = NoCall
          /\ sent' = NoSend
          /\ dbConfig' = dbConfig
          /\ current_member_ips' = current_member_ips]_vars

\* Two ticks in a row read the members of the set, a primary is held.
C12_Witness ==
    /\ pc = "watching"
    /\ stable_ticks = 2
    /\ sent = NoSend
    /\ current_member_ips = new_member_ips
    /\ MemberIps(dbConfig) = current_member_ips
    /\ Cardinality(current_member_ips) >= 2
    /\ primary_ip # None

\* C13: init_replica runs only in the step that follows a start-up
\* classification with no configured member ips (no node handed out a
\* config), and the controller never comes back to that point: not from the
\* watch loop, not after init_replica has run once.
C13_InitiateOnlyWhenFresh ==
    [][/\ (init' # init /\ init' # NoInit)
             => (pc = "initiating" /\ current_member_ips = {})
       /\ pc' = "initiating" => pc \in {"classify", "initiating"}
       /\ (pc = "initiating" /\ init' # init) => pc' # "initiating"]_vars

\* init_replica has run and initiated a set of two members.
C13_Witness ==
    /\ init.outcome = "initiated"
    /\ Len(init.config.members) >= 2
    /\ dbConfig = init.config

\* C14: when rs.initiate answers "requires authentication", init_replica
\* sends exactly one replSetReconfig, with force true, carrying the config
\* freshly built for the task ips, to the bootstrap target (the first task ip
\* enumerated), and runs neither the primary-election wait nor the root-user
\* creation of initialize_mongodb_admin.
C14_HandoffOnAuthRequired ==
    init.outcome = "handoff" =>
        /\ init.handoff.sends = 1
        /\ init.handoff.force = TRUE
        /\ init.handoff.config = create_mongo_config(init.order)
        /\ MemberIps(init.handoff.config) = current_member_ips
        /\ init.handoff.target = init.order[1]
        /\ init.admin_entered = FALSE
        /\ init.admin_polls = 0
        /\ init.create_root = FALSE

\* A hand-off the database accepted, for two task ips.
C14_Witness ==
    /\ init.outcome = "handoff"
    /\ init.handoff.accepted
    /\ Len(init.order) >= 2
    /\ dbConfig = init.handoff.config

\* C15: the config the hand-off submits with force true has the version of
\* the config the set held before, plus 1.
C15_HandoffVersion ==
    [][(init' # init /\ init'.outcome = "handoff")
          => init'.handoff.config.version = dbConfig.version + 1]_vars

\* C16 (start-up budget): __main__ exits with code 1 exactly when
\* is_service_up answered True at none of its checks; when it answered True at
\* a check, the 40th included, the controller goes on to manage_replica.
C16_StartupBudget ==
    startup.checks >= 1 =>
        /\ startup.exit_code = 1 <=> ~startup.up
        /\ startup.up => pc = "classify"

\* C17: once in the watch loop the controller stays in it: no tick, for any
\* task-ip set (the empty one included) and any answer of the database,
\* raises out of manage_replica or ends the process.
C17_WatchingForever ==
    [][(pc \in {"watching", "sending"}) => (pc' \in {"watching", "sending"})]_vars

\* C18: setup_initial_database sends createUser for the application user
\* only when init_replica initiated the set in the same run, not after the
\* hand-off and not after a failed or skipped initiate.
C18_CreateUserOnlyAfterInitiate ==
    boot.create_user_sent => init.initiated

\* C19: setup_initial_database is run at most once per controller run, in
\* the step after init_replica on the start-up path with no configured member
\* ips, and never from the watch loop, whatever its first run achieved.
C19_BootstrapOnce ==
    [][/\ (boot' # boot /\ boot'.outcome # "none")
             => (pc = "bootstrapping" /\ pc' = "watching")
       /\ (pc = "initiating" /\ pc' = "bootstrapping") => current_member_ips = {}
       /\ pc' = "bootstrapping" => pc \in {"initiating", "bootstrapping"}
       /\ pc' = "initiating" => pc \in {"classify", "initiating"}
       /\ pc' = "classify" => pc \in {"starting", "classify"}]_vars

\* The one run of setup_initial_database ended in an error.
C19_Witness ==
    /\ pc = "watching"
    /\ boot.outcome = "error"
    /\ boot.create_user_sent

\* C20 (idempotent user creation): when createUser answers with code 51003,
\* setup_initial_database changes neither the users nor any other state of
\* the database and logs no error.
C20_IdempotentUserCreation ==
    [][(boot' # boot /\ boot'.outcome = "exists")
          => /\ boot'.error_logged = FALSE
             /\ boot'.user_created = FALSE
             /\ dbUsers' = dbUsers
             /\ dbMarkers' = dbMarkers
             /\ dbConfig' = dbConfig
             /\ dbPrimary' = dbPrimary]_vars

\* setup_initial_database ran against a set that had the application user.
C20_Witness ==
    /\ boot.outcome = "exists"
    /\ "app" \in dbUsers
    /\ dbMarkers = 1

\* The positions of the task list whose node answers the pass with a config.
ConfigHolders(tasks_ips, answer) ==
    {i \in DOMAIN tasks_ips : answer[tasks_ips[i]] = "config"}

\* C21 (classification of the known members): when a node answers the last
\* pass made with a config, gather_configured_members_ips returns exactly the
\* member ips of the config of the first such node of the task list, whatever
\* the nodes before it answered and whatever the nodes after it hold, and it
\* has probed no node after it.
C21_FirstConfigWins ==
    (probe.fn = "gather" /\ probe.done) =>
        LET holders == ConfigHolders(probe.tasks_ips, probe.answers[probe.out.passes])
        IN  holders # {} =>
               \E i \in holders :
                  /\ \A j \in holders : i <= j
                  /\ probe.out.node = probe.tasks_ips[i]
                  /\ probe.out.current_ips = MemberIps(probe.stored[probe.tasks_ips[i]])
                  /\ probe.out.probed = i

\* Three nodes that hold configs of their own: the first does not answer
\* with a config, the second and the third do.
C21_Witness ==
    /\ probe.fn = "gather"
    /\ probe.done
    /\ Len(probe.tasks_ips) = 3
    /\ probe.answers[1][probe.tasks_ips[1]] = "nyi"
    /\ probe.answers[1][probe.tasks_ips[2]] = "config"
    /\ probe.answers[1][probe.tasks_ips[3]] = "config"
    /\ probe.stored[probe.tasks_ips[2]] # probe.stored[probe.tasks_ips[3]]
    /\ probe.out.current_ips = {probe.tasks_ips[2]}
    /\ probe.out.probed = 2

\* C22 (never-initialised window): gather_configured_members_ips makes at
\* most 3 passes; every pass before the last one made was answered
\* NotYetInitialized by every node; the result is empty exactly when no node
\* answered the last pass made with a config; and every application has a
\* result.
C22_NeverInitializedWindow ==
    /\ (probe.fn = "gather" /\ ~probe.done) => ENABLED GatherApply
    /\ (probe.fn = "gather" /\ probe.done) =>
          /\ probe.out.passes \in 1..3
          /\ \A k \in 1..(probe.out.passes - 1) :
                \A t \in Range(probe.tasks_ips) : probe.answers[k][t] = "nyi"
          /\ probe.out.current_ips = {}
                <=> ConfigHolders(probe.tasks_ips, probe.answers[probe.out.passes]) = {}

\* Two passes answered NotYetInitialized by both nodes, then a third one in
\* which no node hands out a config.
C22_Witness ==
    /\ probe.fn = "gather"
    /\ probe.done
    /\ Len(probe.tasks_ips) = 2
    /\ probe.out.passes = 3
    /\ probe.out.current_ips = {}
    /\ \E t \in Range(probe.tasks_ips) : probe.answers[3][t] = "timeout"

\* C23 (reaching the watch loop): from the entry of manage_replica, whatever
\* the database and the container shell answer, no phase before the watch
\* loop (classification, initiation with its hand-off, redeployment, user
\* bootstrap) ends the controller.
C23_StartupPhasesAbsorbErrors ==
    [][(pc \in {"classify", "initiating", "reconfiguring", "bootstrapping"})
          => (pc' # "crashed")]_vars

\* C24 (root-user creation ordering): initialize_mongodb_admin polls hello
\* at most 8 times; it runs the root-user creation at most once, and only in
\* an attempt whose hello answer named a primary; after 8 polls at none of
\* which a primary was named and a container found, it returns without
\* having run it.
C24_RootUserAfterPrimary ==
    (probe.fn = "admin" /\ probe.done) =>
        /\ probe.out.polls \in 1..8
        /\ probe.out.creates <= 1
        /\ probe.out.create_root <=> probe.out.creates = 1
        /\ probe.out.create_root =>
              /\ probe.topology[probe.out.polls] # None
              /\ probe.out.primaryIp = probe.topology[probe.out.polls]
        /\ (\A k \in 1..8 : probe.topology[k] = None \/ probe.containers[k] = None)
              => (probe.out.polls = 8 /\ ~probe.out.create_root)

\* A container is there from the first look-up, the primary is named at the
\* fourth poll, and the root user is created then.
C24_Witness ==
    /\ probe.fn = "admin"
    /\ probe.done
    /\ probe.containers[1] # None
    /\ probe.topology[3] = None
    /\ probe.topology[4] # None
    /\ probe.out.polls = 4
    /\ probe.out.create_root

\* C25: the container in which initialize_mongodb_admin runs the root-user
\* creation is the one that runs the node hello reported as primary.
C25_RootUserInPrimaryContainer ==
    (probe.fn = "admin" /\ probe.done /\ probe.out.create_root)
        => probe.out.container = probe.out.primaryIp

\* C26: update_config skips the wait for a new primary only when the held
\* primary is absent, the new task set is not empty and every node of it
\* answered hello with no set name (a node that did not answer is not counted
\* as one that reports no set name); the reconfig is then sent with force
\* true.
C26_SkipOnlyWhenAllReportNoSetName ==
    (probe.fn = "target" /\ probe.done /\ probe.out.skipped) =>
        /\ primary_lost(probe.primary_ip, probe.current_ips, probe.new_ips)
        /\ probe.new_ips # {}
        /\ \A t \in probe.new_ips : probe.hello[t] = "uninit"
        /\ probe.force

\* C27 (reconfigure retry bound): a call of update_config sends
\* replSetReconfig at most 3 times, a call the database accepted a config
\* from has sent at least one, and every call returns to manage_replica: none
\* ends by raising.
C27_ReconfigRetryBound ==
    /\ sent.sends <= 3
    /\ sent.result = "applied" => sent.sends >= 1
    /\ call.stage # "raised"

\* The positions of the list whose node answers hello as writable primary.
WritableAt(tasks_ips, hello) ==
    {i \in DOMAIN tasks_ips : hello[tasks_ips[i]] = "primary"}

\* C28 (findPrimary): get_primary_ip returns the first ip of the list whose
\* hello answer has isWritablePrimary true and has sent hello to no ip after
\* it; it returns None when no ip of the list is a writable primary (the
\* empty list included), having sent hello to every ip, whatever errors the
\* other nodes answered with.
C28_FirstWritablePrimary ==
    (probe.fn = "primary" /\ probe.done) =>
        LET writable == WritableAt(probe.tasks_ips, probe.hello)
        IN  /\ probe.primary_ip = probe.out.primary_ip
            /\ writable = {} =>
                  (probe.primary_ip = None /\ probe.out.probed = Len(probe.tasks_ips))
            /\ writable # {} =>
                  \E i \in writable :
                     /\ \A j \in writable : i <= j
                     /\ probe.primary_ip = probe.tasks_ips[i]
                     /\ probe.out.probed = i

\* The first node times out, the second and the third answer as writable
\* primary: the second is returned.
C28_Witness ==
    /\ probe.fn = "primary"
    /\ probe.done
    /\ Len(probe.tasks_ips) = 3
    /\ probe.hello[probe.tasks_ips[1]] = "timeout"
    /\ probe.hello[probe.tasks_ips[2]] = "primary"
    /\ probe.hello[probe.tasks_ips[3]] = "primary"
    /\ probe.primary_ip = probe.tasks_ips[2]
    /\ probe.out.probed = 2

\* C29 (fresh config order): the config init_replica hands to rs.initiate
\* has version 1 and gives the task ips the ids 0..n-1 in the order the
\* orchestrator listed them, and the bootstrap target is the first ip of that
\* list.
C29_FreshConfigOrder ==
    init.initiate_sent =>
        /\ init.config.version = 1
        /\ init.config = create_mongo_config(mongo_tasks_ips)
        /\ init.target = mongo_tasks_ips[1]

\* C30: in a call of update_config with a non-empty new task-ip set, the
\* node replSetGetConfig and replSetReconfig are sent to is an ip of that set:
\* the node of a call whose config read succeeded (the reconfigs go to the node
\* the config was read from), and the node of a call whose read failed
\* (current_member_ips is the call's new set once it has returned).
C30_TargetInNewIps ==
    /\ (pc = "sending" /\ call.new_ips # {}) => call.target \in call.new_ips
    /\ (sent.read_target # None /\ current_member_ips # {})
          => sent.read_target \in current_member_ips

\* The held primary was removed and no node of the new set of two is
\* writable; the read sent to the chosen node failed.
C30_Witness ==
    /\ pc = "watching"
    /\ sent.result = "failed"
    /\ sent.read_target \in current_member_ips
    /\ Cardinality(current_member_ips) = 2
    /\ sent.read_target # dbPrimary
    /\ dbPrimary \notin current_member_ips
    /\ dbPrimary # None

\* C31: when update_config is about to send replSetReconfig with force
\* false, the node it sends it to is the writable primary of the set at that
\* moment, also when an election moved the primary after the tick that
\* resolved the held primary.
C31_UnforcedOnlyToPrimary ==
    (pc = "sending" /\ call.force = FALSE) => call.target = dbPrimary

\* C32: every call of update_config that manage_replica makes, on the
\* start-up redeployment path and in the watch loop, has a new ip set that
\* differs from the current one, so "assert to_remove or to_add" holds and no
\* call ends with an AssertionError.  (A step after which sent.read_target is
\* set is a call whose config read failed: it moves current_member_ips from
\* the call's current set to its new set.)
C32_AssertionNeverFails ==
    [][/\ (call' # NoCall /\ call' # call)
             => /\ call'.current_ips # call'.new_ips
                /\ ~assertion_fails(call'.current_ips, call'.new_ips)
       /\ (sent'.read_target # None)
             => (current_member_ips' # current_member_ips)]_vars

\* A call made on the start-up redeployment path that removes a member and
\* adds another.
C32_Witness ==
    /\ pc = "sending"
    /\ stable_ticks = 0
    /\ call.stage = "sending"
    /\ call_remove # {}
    /\ call_add # {}
    /\ call.current_ips = MemberIps(call.read)

\* C33: a marker document is inserted only by a call of
\* setup_initial_database in which createUser succeeded (the application user
\* did not exist before the call and exists after it), one document per such
\* call, and the users collection never holds more than one marker document,
\* also when the controller is started against a set an earlier run has
\* bootstrapped.
C33_MarkerOnlyAfterCreateUser ==
    [][(dbMarkers' # dbMarkers)
          => /\ boot'.user_created
             /\ boot'.marker_inserted
             /\ "app" \notin dbUsers
             /\ "app" \in dbUsers'
             /\ dbMarkers' = dbMarkers + 1
             /\ dbMarkers' <= 1]_vars

\* The bootstrap of a set initiated in this run created the user and
\* inserted the marker document.
C33_Witness ==
    /\ boot.outcome = "completed"
    /\ boot.marker_inserted
    /\ init.initiated
    /\ dbMarkers = 1
    /\ "app" \in dbUsers

\* C34: init_replica enters initialize_mongodb_admin (the wait for a primary
\* and the root-user creation) only when rs.initiate succeeded; after an
\* initiate that failed for another reason than "requires authentication"
\* it neither polls hello nor creates the root user.
C34_AdminOnlyAfterInitiate ==
    /\ init.admin_entered => init.initiated
    /\ init.outcome = "failed" => (init.admin_polls = 0 /\ ~init.create_root)

====
